---------------------------- MODULE Spec2Model ----------------------------
(***************************************************************************)
(* aklp-file: the file resource service of src/app.                        *)
(*                                                                         *)
(* The state is the "files" table and, for every request being served,     *)
(* the handler's position and locals.  A handler is cut at the database    *)
(* statements it awaits: every statement (SELECT, INSERT/UPDATE/DELETE +   *)
(* COMMIT) is one atomic step, and statements of different requests        *)
(* interleave (one AsyncSession per request, READ COMMITTED).              *)
(***************************************************************************)
EXTENDS Integers, Sequences, FiniteSets, TLC

(***************************************************************************)
(* Bounds of the model.                                                    *)
(***************************************************************************)
MaxReq == 2          \* requests of a run, served one after another or at once
MaxFiles == 2        \* ids ever drawn by uuid4() in a run (but SpecList)
MaxClock == 2        \* last instant of the database clock in Spec
MaxListFiles == 15   \* largest table SpecList starts from

Req == 1..MaxReq

(***************************************************************************)
(* Values.  NULL is Python's None / SQL NULL for the str | None and        *)
(* UUID | None fields, NoFile is the None of a File | None result.         *)
(***************************************************************************)
NULL == "<None>"
NoFile == [none |-> TRUE]
NoResp == [status |-> 0]
NoArg == [none |-> TRUE]

RECURSIVE Rep(_, _)
Rep(c, n) ==
    IF n = 0 THEN ""
    ELSE LET h == Rep(c, n \div 2)
         IN  IF n % 2 = 0 THEN h \o h ELSE (h \o h) \o c

Min(a, b) == IF a <= b THEN a ELSE b
Max(a, b) == IF a >= b THEN a ELSE b

(***************************************************************************)
(* Settings (app/core/config.py).  MAX_FILE_SIZE is read from the          *)
(* environment; the model runs the service configured with a limit of one  *)
(* byte instead of the default 10 * 1024 * 1024.                           *)
(***************************************************************************)
MAX_FILE_SIZE == 1

FILES_PER_PAGE == 10

(***************************************************************************)
(* Schemas (app/schemas/file.py).                                          *)
(***************************************************************************)
FILENAME_MIN_LENGTH == 1
FILENAME_MAX_LENGTH == 255
DESCRIPTION_MAX_LENGTH == 1000

\* FileUpdate: filename None or 1..255 characters, description None or at
\* most 1000 characters.
FileUpdateValid(file_data) ==
    /\ \/ file_data.filename = NULL
       \/ /\ Len(file_data.filename) >= FILENAME_MIN_LENGTH
          /\ Len(file_data.filename) <= FILENAME_MAX_LENGTH
    /\ \/ file_data.description = NULL
       \/ Len(file_data.description) <= DESCRIPTION_MAX_LENGTH

\* FileResponse.model_validate(file): the metadata of a File, without content.
FileResponse(file) ==
    [id |-> file.id, filename |-> file.filename,
     content_type |-> file.content_type, size |-> file.size,
     session_id |-> file.session_id, description |-> file.description,
     created_at |-> file.created_at, updated_at |-> file.updated_at]

\* total_pages with the division rounded down.
total_pages_floor(total, lim) ==
    IF lim = 0 THEN 0 ELSE total \div lim

\* FileListResponse.total_pages
total_pages(total, lim) ==
    IF lim = 0 THEN 0 ELSE (total + lim - 1) \div lim

\* FileListResponse.has_next
has_next(total, page, lim) == page < total_pages(total, lim)

\* FileListResponse.has_prev
has_prev(page) == page > 1

FileListResponse(items, total, page, lim) ==
    [status |-> 200, items |-> items, total |-> total, page |-> page,
     limit |-> lim, total_pages |-> total_pages(total, lim),
     has_next |-> has_next(total, page, lim), has_prev |-> has_prev(page)]

(***************************************************************************)
(* State.                                                                  *)
(***************************************************************************)
VARIABLES
    files,         \* the table: id -> row, defined on the ids that have a row
    nextId,        \* the next uuid4() (ids are never drawn twice)
    clock,         \* the database server's clock
    pc,            \* per request: idle (not yet received), commit, refresh,
                   \* count, done (the response is ready)
    op,            \* per request: the endpoint being served
    arg,           \* per request: the request's inputs
    file,          \* per request: the File the service loaded (or NoFile)
    txTime,        \* per request: now() of its transaction (its start time)
    files_result,  \* per request: get_list's page of Files
    resp           \* per request: the HTTP response

vars == <<files, nextId, clock, pc, op, arg, file, txTime, files_result, resp>>

Columns ==
    {"filename", "content_type", "size", "content", "session_id",
     "description", "created_at", "updated_at"}

\* models/file.py: a new File row; created_at and updated_at default to now().
File(filename, content_type, size, content, session_id, description, now) ==
    [filename |-> filename, content_type |-> content_type, size |-> size,
     content |-> content, session_id |-> session_id,
     description |-> description, created_at |-> now, updated_at |-> now]

\* The File object a session holds for row id: the row and its primary key.
Loaded(id, row) == [c \in Columns \cup {"id"} |-> IF c = "id" THEN id ELSE row[c]]

\* FileService.get_by_id: select(File).where(File.id == file_id)
get_by_id(file_id) ==
    IF file_id \in DOMAIN files THEN Loaded(file_id, files[file_id]) ELSE NoFile


\* FileService.get_list: limit = 10
limit == 10

\* The rows get_list's WHERE clause keeps (no clause when session_id is None).
Matching(session_id) ==
    {id \in DOMAIN files : session_id = NULL \/ files[id].session_id = session_id}

\* ORDER BY updated_at DESC: every order of the ids the database may return;
\* rows of equal updated_at come in any order.
RECURSIVE OrderByUpdatedAtDesc(_)
OrderByUpdatedAtDesc(ids) ==
    IF ids = {} THEN {<<>>}
    ELSE LET first == {i \in ids :
                         \A j \in ids : files[j].updated_at <= files[i].updated_at}
         IN  UNION {{<<i>> \o rest : rest \in OrderByUpdatedAtDesc(ids \ {i})} :
                     i \in first}

\* The offset of a 0-indexed page.
OffsetZeroIndexed(page) == page * limit

\* FileService.get_list: offset = (page - 1) * limit
Offset(page) == (page - 1) * limit

\* query.offset(offset).limit(limit) applied to an ordered result
OffsetLimit(rows, offset, lim) ==
    SubSeq(rows, offset + 1, Min(Len(rows), offset + lim))

(***************************************************************************)
(* The unit of work of a session.  commit() flushes the File the session   *)
(* holds: the UPDATE sets exactly the columns whose value differs from the *)
(* value the session loaded, and updated_at by onupdate=func.now(); when   *)
(* no column differs no UPDATE is sent.                                    *)
(***************************************************************************)
Dirty(loaded, current) ==
    [c \in {c \in Columns : current[c] # loaded[c]} |-> current[c]]

\* UPDATE files SET <dirty>, updated_at = now() WHERE id = ...
Update(row, dirty, now) ==
    [c \in Columns |->
        IF c \in DOMAIN dirty THEN dirty[c]
        ELSE IF c = "updated_at" THEN now
        ELSE row[c]]

\* update_metadata assigning both fields whatever was supplied.
update_metadata_assign_all(f, file_data) ==
    [f EXCEPT !.filename = file_data.filename,
              !.description = file_data.description]

\* FileService.update_metadata: only the fields that are not None are assigned.
update_metadata_assign(f, file_data) ==
    [f EXCEPT
        !.filename = IF file_data.filename # NULL THEN file_data.filename ELSE @,
        !.description =
            IF file_data.description # NULL THEN file_data.description ELSE @]

\* FileService.update_content: the four fields are assigned unconditionally.
update_content_assign(f, filename, content_type, content) ==
    [f EXCEPT !.filename = filename, !.content_type = content_type,
              !.size = Len(content), !.content = content]

\* The size check rejecting content of exactly the maximum size.
TooLargeInclusive(content) == Len(content) >= MAX_FILE_SIZE

\* upload_file / replace_file: the size check
TooLarge(content) == Len(content) > MAX_FILE_SIZE

\* upload_file / replace_file: file.filename or "unnamed"
FilenameOrDefault(filename) == IF filename = NULL \/ filename = "" THEN "unnamed" ELSE filename

\* upload_file / replace_file: file.content_type or "application/octet-stream"
ContentTypeOrDefault(content_type) ==
    IF content_type = NULL \/ content_type = ""
    THEN "application/octet-stream" ELSE content_type

(***************************************************************************)
(* Steps of the handlers.                                                  *)
(***************************************************************************)
Begin(r, endpoint, inputs) ==
    /\ pc[r] = "idle"
    /\ op' = [op EXCEPT ![r] = endpoint]
    /\ arg' = [arg EXCEPT ![r] = inputs]

\* The handler returns or raises HTTPException: the response is ready.
Done(r, response) ==
    /\ pc' = [pc EXCEPT ![r] = "done"]
    /\ resp' = [resp EXCEPT ![r] = response]

Goto(r, label) ==
    /\ pc' = [pc EXCEPT ![r] = label]
    /\ UNCHANGED resp

\* FileService.create: db.add(file); commit() sends the INSERT.
create(r, filename, content_type, content, session_id, description) ==
    LET new == File(filename, content_type, Len(content), content,
                    session_id, description, clock)
    IN  /\ files' = (nextId :> new) @@ files
        /\ nextId' = nextId + 1
        /\ file' = [file EXCEPT ![r] = Loaded(nextId, new)]
        /\ txTime' = [txTime EXCEPT ![r] = clock]
        /\ Goto(r, "refresh")

\* POST /files
upload_file(r, upload, description, session_id) ==
    /\ Begin(r, "upload_file",
             [file |-> upload, description |-> description,
              session_id |-> session_id])
    /\ IF TooLarge(upload.content)
       THEN /\ Done(r, [status |-> 413])
            /\ UNCHANGED <<files, nextId, file, txTime>>
       ELSE create(r, FilenameOrDefault(upload.filename),
                   ContentTypeOrDefault(upload.content_type), upload.content,
                   session_id, description)
    /\ UNCHANGED <<clock, files_result>>

\* db.refresh(file) after the commit of create, update_metadata and
\* update_content, then FileResponse.model_validate(file).  A row deleted in
\* the meantime makes refresh raise (500).
refresh(r) ==
    /\ pc[r] = "refresh"
    /\ LET fresh == get_by_id(file[r].id)
       IN  IF fresh = NoFile
           THEN /\ Done(r, [status |-> 500])
                /\ UNCHANGED file
           ELSE /\ file' = [file EXCEPT ![r] = fresh]
                /\ Done(r, [status |-> IF op[r] = "upload_file" THEN 201 ELSE 200,
                            body |-> FileResponse(fresh)])
    /\ UNCHANGED <<files, nextId, clock, op, arg, txTime, files_result>>

\* The SELECT of get_by_id at the start of update_metadata, update_content
\* and delete: it begins the session's transaction.
Load(r, file_id) ==
    LET f == get_by_id(file_id)
    IN  IF f = NoFile
        THEN /\ Done(r, [status |-> 404])
             /\ UNCHANGED <<file, txTime>>
        ELSE /\ file' = [file EXCEPT ![r] = f]
             /\ txTime' = [txTime EXCEPT ![r] = clock]
             /\ Goto(r, "commit")

\* commit() of a session whose File was assigned to: the flush.  An UPDATE
\* that matches no row raises StaleDataError (500).
Flush(r, current) ==
    LET dirty == Dirty(file[r], current)
        id == file[r].id
    IN  IF DOMAIN dirty = {}
        THEN /\ Goto(r, "refresh")
             /\ UNCHANGED files
        ELSE IF id \notin DOMAIN files
        THEN /\ Done(r, [status |-> 500])
             /\ UNCHANGED files
        ELSE /\ files' = [files EXCEPT ![id] = Update(@, dirty, txTime[r])]
             /\ Goto(r, "refresh")

\* PATCH /files/{file_id}: validation of the body, then update_metadata up
\* to its get_by_id.
update_file_metadata(r, file_id, file_data) ==
    /\ Begin(r, "update_file_metadata",
             [file_id |-> file_id, file_data |-> file_data])
    /\ IF ~FileUpdateValid(file_data)
       THEN /\ Done(r, [status |-> 422])
            /\ UNCHANGED <<file, txTime>>
       ELSE Load(r, file_id)
    /\ UNCHANGED <<files, nextId, clock, files_result>>

\* FileService.update_metadata from the assignments to the commit.
update_metadata(r) ==
    /\ pc[r] = "commit"
    /\ op[r] = "update_file_metadata"
    /\ Flush(r, update_metadata_assign(file[r], arg[r].file_data))
    /\ UNCHANGED <<nextId, clock, op, arg, file, txTime, files_result>>

\* PUT /files/{file_id}: the size check, then update_content up to its
\* get_by_id.
replace_file(r, file_id, upload) ==
    /\ Begin(r, "replace_file", [file_id |-> file_id, file |-> upload])
    /\ IF TooLarge(upload.content)
       THEN /\ Done(r, [status |-> 413])
            /\ UNCHANGED <<file, txTime>>
       ELSE Load(r, file_id)
    /\ UNCHANGED <<files, nextId, clock, files_result>>

\* FileService.update_content from the assignments to the commit.
update_content(r) ==
    /\ pc[r] = "commit"
    /\ op[r] = "replace_file"
    /\ Flush(r, update_content_assign(
                    file[r], FilenameOrDefault(arg[r].file.filename),
                    ContentTypeOrDefault(arg[r].file.content_type),
                    arg[r].file.content))
    /\ UNCHANGED <<nextId, clock, op, arg, file, txTime, files_result>>

\* DELETE /files/{file_id} up to the get_by_id of FileService.delete.
delete_file(r, file_id) ==
    /\ Begin(r, "delete_file", [file_id |-> file_id])
    /\ Load(r, file_id)
    /\ UNCHANGED <<files, nextId, clock, files_result>>

\* DELETE FROM files WHERE id = ...: the rows left.
DeleteRow(id) == [i \in DOMAIN files \ {id} |-> files[i]]

\* FileService.delete: db.delete(file); commit(); return True.  A DELETE
\* that matches no row only warns.
delete(r) ==
    /\ pc[r] = "commit"
    /\ op[r] = "delete_file"
    /\ files' = DeleteRow(file[r].id)
    /\ Done(r, [status |-> 204])
    /\ UNCHANGED <<nextId, clock, op, arg, file, txTime, files_result>>

\* GET /files/{file_id}
get_file(r, file_id) ==
    /\ Begin(r, "get_file", [file_id |-> file_id])
    /\ LET f == get_by_id(file_id)
       IN  IF f = NoFile
           THEN Done(r, [status |-> 404])
           ELSE Done(r, [status |-> 200, body |-> FileResponse(f)])
    /\ UNCHANGED <<files, nextId, clock, file, txTime, files_result>>

\* GET /files/{file_id}/download
download_file(r, file_id) ==
    /\ Begin(r, "download_file", [file_id |-> file_id])
    /\ LET f == get_by_id(file_id)
       IN  IF f = NoFile
           THEN Done(r, [status |-> 404])
           ELSE Done(r, [status |-> 200, content |-> f.content,
                         media_type |-> f.content_type,
                         filename |-> f.filename, content_length |-> f.size])
    /\ UNCHANGED <<files, nextId, clock, file, txTime, files_result>>

\* GET /files: Query(ge=1) on page, then get_list up to its page query.
list_files(r, page, session_id) ==
    /\ Begin(r, "list_files", [page |-> page, session_id |-> session_id])
    /\ IF page < 1
       THEN /\ Done(r, [status |-> 422])
            /\ UNCHANGED files_result
       ELSE /\ \E ord \in OrderByUpdatedAtDesc(Matching(session_id)) :
                 files_result' =
                    [files_result EXCEPT ![r] =
                        [i \in DOMAIN OffsetLimit(ord, Offset(page), limit) |->
                            get_by_id(OffsetLimit(ord, Offset(page), limit)[i])]]
            /\ Goto(r, "count")
    /\ UNCHANGED <<files, nextId, clock, file, txTime>>

\* get_list's count query, then the FileListResponse of list_files.
get_list_count(r) ==
    /\ pc[r] = "count"
    /\ Done(r, FileListResponse(
                  [i \in DOMAIN files_result[r] |-> FileResponse(files_result[r][i])],
                  Cardinality(Matching(arg[r].session_id)),
                  arg[r].page, FILES_PER_PAGE))
    /\ UNCHANGED <<files, nextId, clock, op, arg, file, txTime, files_result>>

\* Time passes on the database server.
Tick ==
    /\ clock' = clock + 1
    /\ UNCHANGED <<files, nextId, pc, op, arg, file, txTime, files_result, resp>>



(***************************************************************************)
(* Initial states.  The table outlives the process: the service starts on  *)
(* the rows earlier uploads left, here n uploads of a one-byte file made   *)
(* at instant 0.  No request has been received.                            *)
(***************************************************************************)
NoRequests ==
    /\ pc = [r \in Req |-> "idle"]
    /\ op = [r \in Req |-> NULL]
    /\ arg = [r \in Req |-> NoArg]
    /\ file = [r \in Req |-> NoFile]
    /\ txTime = [r \in Req |-> 0]
    /\ files_result = [r \in Req |-> <<>>]
    /\ resp = [r \in Req |-> NoResp]

Uploaded(n) ==
    [i \in 1..n |->
        File("a", "text/plain", 1, "x", IF i % 2 = 1 THEN "s1" ELSE NULL, NULL, 0)]

Init ==
    /\ \E n \in 0..MaxFiles : files = Uploaded(n) /\ nextId = n + 1
    /\ clock = 1
    /\ NoRequests

(***************************************************************************)
(* Spec: every endpoint, MaxReq requests in any interleaving.              *)
(***************************************************************************)
Contents == {"", "x", "y", Rep("x", MAX_FILE_SIZE + 1)}
Uploads ==
    [filename : {NULL, "b"}, content_type : {NULL, "text/plain"},
     content : Contents]
UploadDescriptions == {NULL, Rep("d", DESCRIPTION_MAX_LENGTH + 1)}
FileUpdates ==
    [filename : {NULL, "", "a", "b"},
     description : {NULL, "", Rep("d", DESCRIPTION_MAX_LENGTH),
                    Rep("d", DESCRIPTION_MAX_LENGTH + 1)}]
SessionIds == {NULL, "s1"}
FileIds == 1..MaxFiles
Pages == 0..2

Next ==
    \/ \E r \in Req, upload \in Uploads, description \in UploadDescriptions,
          session_id \in SessionIds :
          nextId <= MaxFiles /\ upload_file(r, upload, description, session_id)
    \/ \E r \in Req : refresh(r)
    \/ \E r \in Req, file_id \in FileIds, file_data \in FileUpdates :
          update_file_metadata(r, file_id, file_data)
    \/ \E r \in Req : update_metadata(r)
    \/ \E r \in Req, file_id \in FileIds, upload \in Uploads :
          replace_file(r, file_id, upload)
    \/ \E r \in Req : update_content(r)
    \/ \E r \in Req, file_id \in FileIds : delete_file(r, file_id)
    \/ \E r \in Req : delete(r)
    \/ \E r \in Req, file_id \in FileIds : get_file(r, file_id)
    \/ \E r \in Req, file_id \in FileIds : download_file(r, file_id)
    \/ \E r \in Req, page \in Pages, session_id \in SessionIds :
          list_files(r, page, session_id)
    \/ \E r \in Req : get_list_count(r)
    \/ clock < MaxClock /\ Tick

Spec == Init /\ [][Next]_vars

(***************************************************************************)
(* Properties checked under Spec.                                          *)
(***************************************************************************)
ListResponses == {r \in Req : op[r] = "list_files" /\ pc[r] = "done" /\ resp[r].status = 200}

\* A commit step of request r for endpoint e that went through (no error).
Committed(r, e) == pc[r] = "commit" /\ op[r] = e /\ pc'[r] = "refresh"

\* C1: in every reachable state every row of the table has
\* size = length(content), requests on the same row interleaved or not.
C1_SizeIsContentLength ==
    \A id \in DOMAIN files : files[id].size = Len(files[id].content)

\* C3: every update_metadata or update_content call that found the record
\* and committed leaves the row's updated_at at the time of the call, also
\* when nothing was supplied or the supplied values are the stored ones.
C3_UpdatedAtRefreshed ==
    [][\A r \in Req :
          (/\ Committed(r, "update_file_metadata") \/ Committed(r, "replace_file")
           /\ file[r].id \in DOMAIN files)
          => /\ file[r].id \in DOMAIN files'
             /\ files'[file[r].id].updated_at = txTime[r]]_vars

\* C4: after update_content succeeds on an existing record, its filename,
\* content_type, size and content are the request's (size the length of the
\* new content); id, session_id, description and created_at are unchanged
\* and no other record changes.
C4_ContentFullyOverwritten ==
    [][\A r \in Req :
          (Committed(r, "replace_file") /\ file[r].id \in DOMAIN files)
          => LET id == file[r].id
                 new == arg[r].file
             IN  /\ DOMAIN files' = DOMAIN files
                 /\ files'[id].filename = FilenameOrDefault(new.filename)
                 /\ files'[id].content_type = ContentTypeOrDefault(new.content_type)
                 /\ files'[id].size = Len(new.content)
                 /\ files'[id].content = new.content
                 /\ files'[id].session_id = files[id].session_id
                 /\ files'[id].description = files[id].description
                 /\ files'[id].created_at = files[id].created_at
                 /\ \A other \in DOMAIN files \ {id} : files'[other] = files[other]]_vars

\* C7: for any record at most one DELETE request reports success (204).
C7_AtMostOneDeleteSucceeds ==
    \A id \in 1..(nextId - 1) :
        Cardinality({r \in Req : /\ op[r] = "delete_file"
                                 /\ pc[r] = "done"
                                 /\ resp[r].status = 204
                                 /\ arg[r].file_id = id}) <= 1

\* C9: in every reachable state every stored description is absent or at
\* most 1000 characters long.
C9_DescriptionAtMost1000 ==
    \A id \in DOMAIN files :
        \/ files[id].description = NULL
        \/ Len(files[id].description) <= 1000

\* C10: in every list response the number of items is
\* min(10, max(0, total - (page - 1) * 10)).
C10_ItemsMatchTotal ==
    \A r \in ListResponses :
        Len(resp[r].items) =
            Min(10, Max(0, resp[r].total - (resp[r].page - 1) * 10))

(***************************************************************************)
(* SpecMeta: PATCH requests, with PUT and DELETE requests on the same rows *)
(* running beside them.                                                    *)
(***************************************************************************)
MetaUpdates == [filename : {NULL, "a", "b"}, description : {NULL, ""}]
MetaUpload == [filename |-> "c", content_type |-> NULL, content |-> ""]

NextMeta ==
    \/ \E r \in Req, file_id \in FileIds, file_data \in MetaUpdates :
          update_file_metadata(r, file_id, file_data)
    \/ \E r \in Req : update_metadata(r)
    \/ \E r \in Req : refresh(r)
    \/ \E r \in Req, file_id \in FileIds : replace_file(r, file_id, MetaUpload)
    \/ \E r \in Req : update_content(r)
    \/ \E r \in Req, file_id \in FileIds : delete_file(r, file_id)
    \/ \E r \in Req : delete(r)

SpecMeta == Init /\ [][NextMeta]_vars

\* C2: the commit of update_metadata changes, of the record it addresses,
\* only the supplied (non-null) fields among filename and description (and
\* updated_at); id, content_type, size, content, session_id and created_at
\* of that record, and every other record, are unchanged.
C2_PartialPatch ==
    [][\A r \in Req :
          (pc[r] = "commit" /\ op[r] = "update_file_metadata" /\ pc'[r] # "commit")
          => LET id == file[r].id
                 data == arg[r].file_data
             IN  /\ DOMAIN files' = DOMAIN files
                 /\ \A other \in DOMAIN files \ {id} : files'[other] = files[other]
                 /\ id \in DOMAIN files =>
                      /\ data.filename = NULL =>
                            files'[id].filename = files[id].filename
                      /\ data.description = NULL =>
                            files'[id].description = files[id].description
                      /\ \A c \in {"content_type", "size", "content",
                                   "session_id", "created_at"} :
                            files'[id][c] = files[id][c]]_vars

\* A description-only PATCH has committed: the description is the supplied
\* one, the filename is still the uploaded one, and another record exists.
C2_Witness ==
    \E r \in Req :
        /\ op[r] = "update_file_metadata"
        /\ pc[r] = "refresh"
        /\ arg[r].file_data.filename = NULL
        /\ arg[r].file_data.description = ""
        /\ file[r].id \in DOMAIN files
        /\ files[file[r].id].description = ""
        /\ files[file[r].id].filename = "a"
        /\ files[file[r].id].updated_at = txTime[r]
        /\ DOMAIN files # {file[r].id}

(***************************************************************************)
(* SpecSize: uploads and content replacements of every length up to two    *)
(* bytes over the limit.                                                   *)
(***************************************************************************)
SizeUploads ==
    [filename : {NULL, "b"}, content_type : {NULL},
     content : {Rep("x", n) : n \in 0..(MAX_FILE_SIZE + 2)}]

NextSize ==
    \/ \E r \in Req, upload \in SizeUploads :
          nextId <= MaxFiles /\ upload_file(r, upload, NULL, NULL)
    \/ \E r \in Req : refresh(r)
    \/ \E r \in Req, file_id \in FileIds, upload \in SizeUploads :
          replace_file(r, file_id, upload)
    \/ \E r \in Req : update_content(r)

SpecSize == Init /\ [][NextSize]_vars

\* C6: a POST or PUT whose content is longer than MAX_FILE_SIZE is answered
\* 413 at once, creates no record and changes no record; one whose content
\* is at most MAX_FILE_SIZE long (the maximum included) is not answered 413:
\* the POST inserts the record, the PUT goes on to its update or answers 404.
C6_SizeLimit ==
    [][\A r \in Req :
          (pc[r] = "idle" /\ op'[r] \in {"upload_file", "replace_file"})
          => LET content == arg'[r].file.content
             IN  /\ Len(content) > MAX_FILE_SIZE =>
                      /\ pc'[r] = "done"
                      /\ resp'[r].status = 413
                      /\ files' = files
                      /\ nextId' = nextId
                 /\ Len(content) <= MAX_FILE_SIZE =>
                      /\ resp'[r].status # 413
                      /\ op'[r] = "upload_file" =>
                            /\ pc'[r] = "refresh"
                            /\ nextId \in DOMAIN files'
                            /\ files'[nextId].content = content
                      /\ op'[r] = "replace_file" =>
                            \/ pc'[r] = "commit"
                            \/ pc'[r] = "done" /\ resp'[r].status = 404]_vars

\* A PUT one byte over the limit on an existing record was answered 413,
\* and a POST of exactly MAX_FILE_SIZE bytes has stored its record.
C6_Witness ==
    /\ \E r \in Req :
          /\ op[r] = "replace_file"
          /\ pc[r] = "done"
          /\ resp[r].status = 413
          /\ Len(arg[r].file.content) = MAX_FILE_SIZE + 1
          /\ arg[r].file_id \in DOMAIN files
    /\ \E r \in Req :
          /\ op[r] = "upload_file"
          /\ pc[r] = "done"
          /\ resp[r].status = 201
          /\ Len(arg[r].file.content) = MAX_FILE_SIZE
          /\ resp[r].body.size = MAX_FILE_SIZE

(***************************************************************************)
(* SpecList: GET /files on tables of up to MaxListFiles rows, with uploads *)
(* and deletes running beside the listing.  Two kinds of table: every row  *)
(* of session "s1" with some rows updated at the same instant, and rows of *)
(* three sessions updated in an order unrelated to their ids.              *)
(***************************************************************************)
ListSession(kind, i) ==
    IF kind = "one session" THEN "s1"
    ELSE IF i % 3 = 0 THEN NULL ELSE IF i % 3 = 1 THEN "s1" ELSE "s2"

ListInstant(kind, i) ==
    IF kind = "one session"
    THEN IF i % 5 = 1 /\ i > 1 THEN i - 1 ELSE i
    ELSE (i * 7) % (MaxListFiles + 2)

ListTable(kind, n) ==
    [i \in 1..n |->
        [File("a", "text/plain", 1, "x", ListSession(kind, i), NULL, 0)
            EXCEPT !.updated_at = ListInstant(kind, i)]]

InitList ==
    /\ \E n \in 0..MaxListFiles, kind \in {"one session", "mixed"} :
          files = ListTable(kind, n) /\ nextId = n + 1
    /\ clock = MaxListFiles + 2
    /\ NoRequests

ListUpload == [filename |-> "b", content_type |-> NULL, content |-> "x"]
ListPages == 1..2
ListSessionIds == {NULL, "s1"}
ListUploadSessionIds == {"s1", "s2"}
ListDeleteId == 1

NextList ==
    \/ \E r \in Req, page \in ListPages, session_id \in ListSessionIds :
          list_files(r, page, session_id)
    \/ \E r \in Req : get_list_count(r)
    \/ \E r \in Req, session_id \in ListUploadSessionIds :
          nextId <= MaxListFiles + 1 /\ upload_file(r, ListUpload, NULL, session_id)
    \/ \E r \in Req : refresh(r)
    \/ \E r \in Req : delete_file(r, ListDeleteId)
    \/ \E r \in Req : delete(r)

SpecList == InitList /\ [][NextList]_vars

\* The records of the table a listing with this filter is about.
MatchingRecords(session_id) ==
    IF session_id = NULL THEN DOMAIN files
    ELSE {id \in DOMAIN files : files[id].session_id = session_id}

\* items are the records at positions offset + 1 .. offset + 10 of the
\* matching records in some order of descending updated_at.
IsPage(items, page, session_id) ==
    LET M == MatchingRecords(session_id)
        offset == (page - 1) * 10
        Newer(t) == Cardinality({m \in M : files[m].updated_at > t})
        NotOlder(t) == Cardinality({m \in M : files[m].updated_at >= t})
    IN  /\ Len(items) = Min(10, Max(0, Cardinality(M) - offset))
        /\ \A i \in DOMAIN items :
              /\ items[i].id \in M
              /\ \A c \in Columns : items[i][c] = files[items[i].id][c]
              /\ Newer(items[i].updated_at) <= offset + i - 1
              /\ NotOlder(items[i].updated_at) >= offset + i
        /\ \A i, j \in DOMAIN items :
              i < j => /\ items[i].id # items[j].id
                       /\ items[i].updated_at >= items[j].updated_at

\* C5: for the table its page query reads, get_list returns exactly the
\* records at positions (page-1)*10+1 .. page*10 of the matching records
\* ordered by updated_at descending (an empty list past the end); for the
\* table its count query reads, total is the number of matching records;
\* with a session_id both cover only the records of that session; the
\* response carries these items and this total.
C5_ListPage ==
    [][\A r \in Req :
          /\ (pc[r] = "idle" /\ pc'[r] = "count")
             => IsPage(files_result'[r], arg'[r].page, arg'[r].session_id)
          /\ (pc[r] = "count" /\ pc'[r] = "done")
             => /\ resp'[r].total =
                      Cardinality(MatchingRecords(arg[r].session_id))
                /\ Len(resp'[r].items) = Len(files_result[r])
                /\ \A i \in DOMAIN files_result[r] :
                      resp'[r].items[i] = FileResponse(files_result[r][i])
                /\ resp'[r].page = arg[r].page]_vars

\* Page 2 of session "s1" was listed from a table holding 15 records of
\* that session and one of another: 5 items, total 15.
C5_Witness ==
    \E r \in ListResponses :
        /\ arg[r].page = 2
        /\ arg[r].session_id = "s1"
        /\ Len(resp[r].items) = 5
        /\ resp[r].total = 15
        /\ \E id \in DOMAIN files : files[id].session_id = "s2"
        /\ \A i \in 1..5 : resp[r].items[i].session_id = "s1"

\* C8: in every list response total_pages = ceil(total / 10), has_next
\* holds exactly when page < total_pages and has_prev exactly when
\* page > 1; total = 0 gives total_pages = 0 and no next page; page 2 of 15
\* matching records holds 5 items, and a response with total = 15 and
\* page = 2 has total_pages = 2, has_next = false, has_prev = true.
C8_DerivedFields ==
    /\ [](\A r \in ListResponses :
            LET R == resp[r]
            IN  /\ R.limit = 10
                /\ R.total_pages * 10 >= R.total
                /\ R.total_pages >= 0
                /\ R.total_pages > 0 => (R.total_pages - 1) * 10 < R.total
                /\ R.has_next <=> R.page < R.total_pages
                /\ R.has_prev <=> R.page > 1
                /\ R.total = 0 => R.total_pages = 0 /\ ~R.has_next
                /\ (R.total = 15 /\ R.page = 2) =>
                      R.total_pages = 2 /\ ~R.has_next /\ R.has_prev)
    /\ [][\A r \in Req :
            (/\ pc[r] = "idle"
             /\ pc'[r] = "count"
             /\ arg'[r].page = 2
             /\ Cardinality(MatchingRecords(arg'[r].session_id)) = 15)
            => Len(files_result'[r]) = 5]_vars

\* Page 2 of 15 records was listed: 5 items, total 15, 2 pages, no next
\* page, a previous page.
C8_Witness ==
    \E r \in ListResponses :
        /\ resp[r].page = 2
        /\ resp[r].total = 15
        /\ Len(resp[r].items) = 5
        /\ resp[r].total_pages = 2
        /\ ~resp[r].has_next
        /\ resp[r].has_prev

=============================================================================
